---- MODULE Spec2Model ----
(***************************************************************************)
(* Row-level data-scope filter of the RuoYi-FastAPI admin backend.         *)
(*                                                                         *)
(* GetDataScope.__call__ turns the current user's roles into the text       *)
(* "or_(c1, c2, ...)".  The DAO layer passes eval() of that text as one     *)
(* more criterion to select(...).where(...).  The model keeps the text as  *)
(* the list of its clauses (one record per interpolated f-string) and      *)
(* evaluates it row by row the way the DAO's query does.                   *)
(***************************************************************************)
EXTENDS Integers, Sequences, FiniteSets, TLC

VARIABLES
    sys_dept,        \* table sys_dept: dept_id -> row
    sys_user,        \* table sys_user: user_id -> row
    sys_role,        \* table sys_role: role_id -> row
    sys_user_role,   \* table sys_user_role: set of <<user_id, role_id>>
    sys_role_dept,   \* table sys_role_dept: role_id -> granted dept ids
    current_user,    \* CurrentUserModel.user resolved by get_current_user
    query_alias,     \* query_alias of the GetDataScope instance of the endpoint
    param_sql,       \* value returned by GetDataScope.__call__ (clauses of or_)
    pc,              \* position of the request
    page_object,     \* search filters of the list request
    query_result,    \* primary keys returned by the list query
    sys_dict_data,   \* table sys_dict_data: committed dict_label values of one dict_type
    cps_file,        \* table cps_file: file_id -> row (committed)
    redis_sys_dict,  \* Redis value of SYS_DICT:{dict_type}
    write_request,   \* the last write request: service and outcome
    persisted_before, \* committed tables when that request started
    threads,         \* concurrent calls of one GetDataScope instance: thread -> frame
    password_error_count, \* Redis key PASSWORD_ERROR_COUNT:{user_name}
    account_lock,    \* Redis key ACCOUNT_LOCK:{user_name}
    attempts,        \* calls of authenticate_user: attempt -> frame
    streak,          \* wrong-password attempts completed since the last reset
    app_same_time_login, \* AppConfig.app_same_time_login
    access_token,    \* Redis keys ACCESS_TOKEN:{session_id} and ACCESS_TOKEN:{user_id}
    auth_requests,   \* calls of get_current_user: request -> frame
    issued,          \* tokens handed out by login, in order
    logged_out,      \* tokens whose logout request has completed
    interface_auth,  \* the CheckUserInterfaceAuth instance: perm, is_strict
    permissions,     \* current_user.permissions of the request
    auth_result      \* what the instance's __call__ did

vars == <<sys_dept, sys_user, sys_role, sys_user_role, sys_role_dept,
          current_user, query_alias, param_sql, pc, page_object, query_result,
          sys_dict_data, cps_file, redis_sys_dict, write_request,
          persisted_before, threads, password_error_count, account_lock,
          attempts, streak, app_same_time_login, access_token, auth_requests,
          issued, logged_out, interface_auth, permissions, auth_result>>

tables == <<sys_dept, sys_user, sys_role, sys_user_role, sys_role_dept>>

\* login throttling of authenticate_user
throttle == <<password_error_count, account_lock, attempts, streak>>

\* tokens of login, logout and get_current_user
sessions == <<app_same_time_login, access_token, auth_requests, issued, logged_out>>

\* state of the login endpoints
login == <<throttle, sessions>>

\* the interface permission check of a request
interface == <<interface_auth, permissions, auth_result>>

\* state of the other requests, which the list request leaves alone
services == <<sys_dict_data, cps_file, redis_sys_dict, write_request,
              persisted_before, threads, login, interface>>

\* the list request
list_request == <<current_user, query_alias, param_sql, pc, page_object,
                  query_result>>

\* what the write services leave alone
outside_tx == <<list_request, threads, login, interface>>

\* what the concurrent calls of the builder leave alone
outside_threads == <<tables, list_request, sys_dict_data, cps_file,
                     redis_sys_dict, write_request, persisted_before, login, interface>>


----------------------------------------------------------------------------
(* Bounds *)

\* longest role list of a user
MaxRoles == 2
\* number of departments in the sys_dept table
MaxDept == 4

----------------------------------------------------------------------------
(* Values *)

\* SQL NULL / Python None
NULL == 0 - 1

DeptIds == 1..MaxDept
UserIds == 1..(MaxDept + 1)
RoleIds == {1, 2}
FileIds == {1, 2}
DictLabels == {"a", "b"}

DATA_SCOPE_ALL == "1"
DATA_SCOPE_CUSTOM == "2"
DATA_SCOPE_DEPT == "3"
DATA_SCOPE_DEPT_AND_CHILD == "4"
DATA_SCOPE_SELF == "5"

\* the five recognized values and one value outside them
DataScopes == {DATA_SCOPE_ALL, DATA_SCOPE_CUSTOM, DATA_SCOPE_DEPT,
               DATA_SCOPE_DEPT_AND_CHILD, DATA_SCOPE_SELF, "6"}

Recognized == {DATA_SCOPE_ALL, DATA_SCOPE_CUSTOM, DATA_SCOPE_DEPT,
               DATA_SCOPE_DEPT_AND_CHILD, DATA_SCOPE_SELF}

\* GetDataScope.__init__ defaults, which every endpoint keeps
user_alias == "user_id"
dept_alias == "dept_id"

\* ORM classes an endpoint can name, with the columns hasattr() can find
Columns ==
    [SysDept |-> {"dept_id", "parent_id", "ancestors", "status", "del_flag"},
     SysUser |-> {"user_id", "dept_id", "status", "del_flag"},
     SysUserRole |-> {"user_id", "role_id"}]

Aliases == DOMAIN Columns

hasattr(alias, name) == name \in Columns[alias]

----------------------------------------------------------------------------
(* The text GetDataScope.__call__ builds.  One record per f-string: kind   *)
(* names the template, alias/field/guard/arg are the interpolated values   *)
(* (field is the attribute read, guard the attribute hasattr() tests).     *)
(* Two records are equal exactly when the two Python strings are equal.    *)

Clause(kind, alias, field, guard, arg) ==
    [kind |-> kind, alias |-> alias, field |-> field, guard |-> guard, arg |-> arg]

\* '1 == 1'
TrueClause == Clause("1 == 1", "", "", "", <<>>)

\* '1 == 0'
FalseClause == Clause("1 == 0", "", "", "", <<>>)

\* role_id of every role whose data_scope is CUSTOM, in list order
RECURSIVE custom_data_scope_role_id_list(_)
custom_data_scope_role_id_list(roles) ==
    IF roles = <<>> THEN <<>>
    ELSE IF Head(roles).data_scope = DATA_SCOPE_CUSTOM
         THEN <<Head(roles).role_id>> \o custom_data_scope_role_id_list(Tail(roles))
         ELSE custom_data_scope_role_id_list(Tail(roles))

\* the CUSTOM branch always taking the single-role form
CustomClause_PerRole(alias, role, custom_list) ==
    Clause("custom_eq", alias, dept_alias, dept_alias, <<role.role_id>>)

\* the CUSTOM branch: one IN over all CUSTOM roles when there are several,
\* else the equality on this role's id
CustomClause(alias, role, custom_list) ==
    IF Len(custom_list) > 1
    THEN Clause("custom_in", alias, dept_alias, dept_alias, custom_list)
    ELSE Clause("custom_eq", alias, dept_alias, dept_alias, <<role.role_id>>)

\* the DEPT branch building the DEPT_AND_CHILD text
DeptClause_WithChildren(alias, dept_id) ==
    Clause("dept_and_child", alias, dept_alias, dept_alias, <<dept_id>>)

DeptClause(alias, dept_id) ==
    Clause("dept", alias, dept_alias, dept_alias, <<dept_id>>)

DeptAndChildClause(alias, dept_id) ==
    Clause("dept_and_child", alias, dept_alias, dept_alias, <<dept_id>>)

\* the SELF clause comparing the department column with the user's id
SelfClause_ByDept(alias, user_id) ==
    Clause("self", alias, dept_alias, dept_alias, <<user_id>>)

\* the SELF clause guarded by the department attribute instead of the owner's
SelfClause_WrongGuard(alias, user_id) ==
    Clause("self", alias, user_alias, dept_alias, <<user_id>>)

SelfClause(alias, user_id) ==
    Clause("self", alias, user_alias, user_alias, <<user_id>>)

\* an unrecognized scope treated as unrestricted
UnknownScopeClause_Open == TrueClause

\* the else branch of the loop
UnknownScopeClause == FalseClause

\* the if/elif chain below the short circuit: the clause one role appends
RoleClause(alias, user, role, custom_list) ==
    IF role.data_scope = DATA_SCOPE_CUSTOM THEN CustomClause(alias, role, custom_list)
    ELSE IF role.data_scope = DATA_SCOPE_DEPT THEN DeptClause(alias, user.dept_id)
    ELSE IF role.data_scope = DATA_SCOPE_DEPT_AND_CHILD
         THEN DeptAndChildClause(alias, user.dept_id)
    ELSE IF role.data_scope = DATA_SCOPE_SELF THEN SelfClause(alias, user.user_id)
    ELSE UnknownScopeClause

\* the test that resets the list and leaves the loop
ShortCircuit(user, role) ==
    user.admin \/ role.data_scope = DATA_SCOPE_ALL

\* the always-true clause added to what the earlier roles appended
ResetList_Supplement(acc) == Append(acc, TrueClause)

\* the list after the reset: param_sql_list = ['1 == 1']
ResetList(acc) == <<TrueClause>>

\* the for loop from role number i on, acc being param_sql_list so far
RECURSIVE RoleLoop(_, _, _, _, _)
RoleLoop(alias, user, custom_list, i, acc) ==
    IF i > Len(user.role) THEN acc
    ELSE IF ShortCircuit(user, user.role[i]) THEN ResetList(acc)
    ELSE RoleLoop(alias, user, custom_list, i + 1,
                  Append(acc, RoleClause(alias, user, user.role[i], custom_list)))

Contains(seq, x) == \E i \in 1..Len(seq) : seq[i] = x

\* list(dict.fromkeys(l)): first occurrences, in order
RECURSIVE DedupFrom(_, _)
DedupFrom(seq, acc) ==
    IF seq = <<>> THEN acc
    ELSE DedupFrom(Tail(seq), IF Contains(acc, Head(seq)) THEN acc ELSE Append(acc, Head(seq)))

Dedup(seq) == DedupFrom(seq, <<>>)

\* GetDataScope(alias).__call__(current_user): the operands of the or_(...) text
GetDataScope(alias, user) ==
    Dedup(RoleLoop(alias, user, custom_data_scope_role_id_list(user.role), 1, <<>>))

----------------------------------------------------------------------------
(* What eval() of the text means inside select(...).where(...).            *)

Col(row, name) == IF name \in DOMAIN row THEN row[name] ELSE NULL

\* MySQL find_in_set(n, 'a,b,c'): 1-based place of n in the list, 0 if absent,
\* NULL if n is NULL; ancestors is kept as the list of its ids
find_in_set(n, ancestors) ==
    IF n = NULL THEN NULL
    ELSE IF \E i \in 1..Len(ancestors) : ancestors[i] = n
         THEN CHOOSE i \in 1..Len(ancestors) :
                  ancestors[i] = n /\ \A j \in 1..(i - 1) : ancestors[j] # n
         ELSE 0

\* a number used as a WHERE condition is true when it is neither NULL nor 0
SqlTrue(n) == n # NULL /\ n # 0

\* column == value as SQLAlchemy renders it: "IS NULL" for None, "=" otherwise
SqlEq(col, value) ==
    IF value = NULL THEN col = NULL ELSE col # NULL /\ col = value

\* the sub-query without its role filter
RoleDeptIds_AllRoles(role_ids) ==
    UNION {sys_role_dept[r] : r \in DOMAIN sys_role_dept}

\* select(SysRoleDept.dept_id).where(SysRoleDept.role_id.in_(role_ids))
RoleDeptIds(role_ids) ==
    UNION {sys_role_dept[role_ids[i]] : i \in 1..Len(role_ids)}

\* the sub-query without the find_in_set operand
DeptAndChildIds_OwnOnly(d) ==
    {x \in DOMAIN sys_dept : SqlEq(sys_dept[x].dept_id, d)}

\* select(SysDept.dept_id).where(or_(SysDept.dept_id == d,
\*                                   func.find_in_set(d, SysDept.ancestors)))
DeptAndChildIds(d) ==
    {x \in DOMAIN sys_dept :
        SqlEq(sys_dept[x].dept_id, d) \/ SqlTrue(find_in_set(d, sys_dept[x].ancestors))}

\* the condition a clause puts on a row once hasattr() has passed
ClauseCondition(c, row) ==
    IF c.kind = "custom_in" \/ c.kind = "custom_eq"
    THEN Col(row, c.field) # NULL /\ Col(row, c.field) \in RoleDeptIds(c.arg)
    ELSE IF c.kind = "dept" THEN SqlEq(Col(row, c.field), c.arg[1])
    ELSE IF c.kind = "dept_and_child"
         THEN Col(row, c.field) # NULL /\ Col(row, c.field) \in DeptAndChildIds(c.arg[1])
    ELSE IF c.kind = "self" THEN SqlEq(Col(row, c.field), c.arg[1])
    ELSE FALSE

\* "<condition> if hasattr(<alias>, '<guard>') else 1 == 0", '1 == 1', '1 == 0'
EvalClause(c, row) ==
    IF c.kind = "1 == 1" THEN TRUE
    ELSE IF c.kind = "1 == 0" THEN FALSE
    ELSE IF hasattr(c.alias, c.guard) THEN ClauseCondition(c, row)
    ELSE FALSE

\* eval() raises AttributeError when a clause reads an attribute the class lacks
ClauseRaises(c) ==
    /\ c.kind \notin {"1 == 1", "1 == 0"}
    /\ hasattr(c.alias, c.guard)
    /\ ~hasattr(c.alias, c.field)

Raises(clauses) == \E i \in 1..Len(clauses) : ClauseRaises(clauses[i])

\* A WHERE criterion on one row: blank (renders no SQL) or a truth value
Crit(b) == [blank |-> FALSE, val |-> b]
Blank == [blank |-> TRUE, val |-> FALSE]

\* sqlalchemy or_(*clauses): without operands it is the empty clause list, which
\* renders nothing (the deprecated no-argument form)
or_(clauses, row) ==
    IF clauses = <<>> THEN Blank
    ELSE Crit(\E i \in 1..Len(clauses) : EvalClause(clauses[i], row))

\* select(...).where(c1, c2, ...): the row passes when every criterion that
\* renders SQL is true
where(criteria) ==
    \A i \in 1..Len(criteria) : criteria[i].blank \/ criteria[i].val

\* select(<alias>).where(eval(param_sql)) returns the row
Admits(clauses, row) == where(<<or_(clauses, row)>>)

----------------------------------------------------------------------------
(* Tables *)

\* ancestors of a department: the ancestors of its parent, then the parent;
\* department d hangs under department d \div 2, department 1 under the root 0
RECURSIVE SeedAncestors(_)
SeedAncestors(d) ==
    IF d \div 2 = 0 THEN <<0>> ELSE Append(SeedAncestors(d \div 2), d \div 2)

SeedDept ==
    [d \in DeptIds |->
        [dept_id |-> d, parent_id |-> d \div 2, ancestors |-> SeedAncestors(d),
         dept_name |-> IF d % 2 = 1 THEN "A" ELSE "B",
         status |-> IF d = MaxDept THEN "1" ELSE "0", del_flag |-> "0"]]

\* one user per department and one user without department
SeedUser ==
    [u \in UserIds |->
        [user_id |-> u, dept_id |-> IF u \in DeptIds THEN u ELSE NULL,
         status |-> "0", del_flag |-> "0"]]

SeedRole ==
    [r \in RoleIds |->
        [role_id |-> r, status |-> IF r = 1 THEN "0" ELSE "1", del_flag |-> "0"]]

\* role 1 is held by user 1; role 2 by the user of the last department and by
\* the user without department
SeedUserRole ==
    {ur \in UserIds \X RoleIds :
        \/ ur[2] = 1 /\ ur[1] = 1
        \/ ur[2] = 2 /\ ur[1] >= MaxDept}

\* department sets a CUSTOM role can have been granted
GrantChoices == {{}, {1}, {2, MaxDept}}

SeedRoleDept == [r \in RoleIds |-> IF r = 1 THEN {1} ELSE {2, MaxDept}]

Roles == [role_id : RoleIds, data_scope : DataScopes]

RoleLists == UNION {[1..n -> Roles] : n \in 0..MaxRoles}

\* rows a query on the class can meet
Rows(alias) ==
    IF alias = "SysDept" THEN {sys_dept[d] : d \in DOMAIN sys_dept}
    ELSE IF alias = "SysUser"
         THEN [user_id : UserIds, dept_id : DeptIds \cup {NULL}]
    ELSE [user_id : UserIds, role_id : RoleIds]

NoFilter ==
    [dept_id |-> NULL, user_id |-> NULL, role_id |-> NULL, status |-> "",
     dept_name |-> ""]

----------------------------------------------------------------------------
(* Requests *)

\* a request of a resolved user, before the endpoint's dependencies run
\* one file per uploader
SeedFile ==
    [f \in FileIds |-> [file_id |-> f, upload_user_id |-> f, is_deleted |-> FALSE]]

NoRequest == [service |-> "", outcome |-> "", targets |-> {}]

\* no write request has run
TxIdle ==
    /\ sys_dict_data = {}
    /\ cps_file = SeedFile
    /\ redis_sys_dict = {}
    /\ write_request = NoRequest
    /\ persisted_before = <<SeedDept, {}, SeedFile>>

\* no interface permission check has run
NoChecker == [perm |-> [type |-> "str", str |-> "", list |-> <<>>], is_strict |-> FALSE]

InterfaceIdle ==
    /\ interface_auth = NoChecker
    /\ permissions = {}
    /\ auth_result = ""

\* a Redis key that does not exist: get returns None
NoKey == [value |-> NULL, ttl |-> 0]

\* the lock key when it does not exist (its value is a user name)
NoLock == [value |-> "", ttl |-> 0]

NoStreak == [n |-> 0, age |-> 0, clean |-> TRUE]

\* no login has been attempted
ThrottleIdle ==
    /\ password_error_count = NoKey
    /\ account_lock = NoLock
    /\ attempts = <<>>
    /\ streak = NoStreak

\* nobody has logged in
SessionsIdle ==
    /\ app_same_time_login = TRUE
    /\ access_token = <<>>
    /\ auth_requests = <<>>
    /\ issued = <<>>
    /\ logged_out = {}

LoginIdle == ThrottleIdle /\ SessionsIdle

ServicesIdle ==
    /\ TxIdle
    /\ InterfaceIdle
    /\ threads = <<>>
    /\ LoginIdle

\* the tables as seeded
SeedTables ==
    /\ sys_dept = SeedDept
    /\ sys_user = SeedUser
    /\ sys_role = SeedRole
    /\ sys_user_role = SeedUserRole
    /\ sys_role_dept = SeedRoleDept

\* no list request is being served
ListIdle ==
    /\ current_user = [user_id |-> 1, dept_id |-> 1, admin |-> FALSE, role |-> <<>>]
    /\ query_alias = ""
    /\ param_sql = <<>>
    /\ pc = "resolved"
    /\ page_object = NoFilter
    /\ query_result = {}

Resolved ==
    /\ ServicesIdle
    /\ sys_dept = SeedDept
    /\ sys_user = SeedUser
    /\ sys_role = SeedRole
    /\ sys_user_role = SeedUserRole
    /\ \E u \in UserIds, a \in BOOLEAN, r \in RoleLists :
           current_user = [user_id |-> u, dept_id |-> SeedUser[u].dept_id,
                           admin |-> a, role |-> r]
    /\ query_alias = ""
    /\ param_sql = <<>>
    /\ pc = "resolved"
    /\ page_object = NoFilter
    /\ query_result = {}

Init ==
    /\ sys_role_dept = SeedRoleDept
    /\ Resolved

\* the same request over every grant table
InitScope ==
    /\ sys_role_dept \in [RoleIds -> GrantChoices]
    /\ Resolved

\* Depends(GetDataScope(alias)): the endpoint's instance is called with the
\* current user
Call(alias) ==
    /\ pc = "resolved"
    /\ query_alias' = alias
    /\ param_sql' = GetDataScope(alias, current_user)
    /\ pc' = "scoped"
    /\ UNCHANGED <<tables, current_user, page_object,
                   query_result, services>>

\* "<filter> if <value given> else True"
Optional(given, b) == IF given THEN Crit(b) ELSE Crit(TRUE)

\* the criteria without eval(data_scope_sql)
DeptListCriteria_NoScope(page, clauses, row) ==
    << Crit(row.del_flag = "0"),
       Optional(page.dept_id # NULL, SqlEq(row.dept_id, page.dept_id)),
       Optional(page.status # "", row.status = page.status),
       Optional(page.dept_name # "", row.dept_name = page.dept_name) >>

\* the criteria DeptDao.get_dept_list hands to where() for one sys_dept row
DeptListCriteria(page, clauses, row) ==
    << Crit(row.del_flag = "0"),
       Optional(page.dept_id # NULL, SqlEq(row.dept_id, page.dept_id)),
       Optional(page.status # "", row.status = page.status),
       Optional(page.dept_name # "", row.dept_name = page.dept_name),
       or_(clauses, row) >>

\* DeptDao.get_dept_list
get_dept_list ==
    /\ pc = "scoped"
    /\ query_alias = "SysDept"
    /\ \E d \in DeptIds \cup {NULL}, st \in {"", "0"}, nm \in {"", "A"} :
           page_object' = [dept_id |-> d, user_id |-> NULL, role_id |-> NULL,
                           status |-> st, dept_name |-> nm]
    /\ query_result' =
           {d \in DOMAIN sys_dept :
               where(DeptListCriteria(page_object', param_sql, sys_dept[d]))}
    /\ pc' = IF Raises(param_sql) THEN "error" ELSE "dept_listed"
    /\ UNCHANGED <<tables, current_user, query_alias,
                   param_sql, services>>

\* SysUser.dept_id is the filter's department or one below it
UserDeptFilter(row, dept_id) ==
    \/ SqlEq(row.dept_id, dept_id)
    \/ /\ row.dept_id # NULL
       /\ row.dept_id \in
              {x \in DOMAIN sys_dept : SqlTrue(find_in_set(dept_id, sys_dept[x].ancestors))}

\* the criteria UserDao.get_user_list hands to where() for one sys_user row
UserListCriteria(page, clauses, row) ==
    << Crit(row.del_flag = "0"),
       Optional(page.dept_id # NULL, UserDeptFilter(row, page.dept_id)),
       Optional(page.user_id # NULL, SqlEq(row.user_id, page.user_id)),
       Optional(page.status # "", row.status = page.status),
       or_(clauses, row) >>

\* UserDao.get_user_list
get_user_list ==
    /\ pc = "scoped"
    /\ query_alias = "SysUser"
    /\ \E d \in DeptIds \cup {NULL}, u \in {NULL, 1} :
           page_object' = [dept_id |-> d, user_id |-> u, role_id |-> NULL,
                           status |-> IF u = NULL THEN "" ELSE "0",
                           dept_name |-> ""]
    /\ query_result' =
           {u \in DOMAIN sys_user :
               where(UserListCriteria(page_object', param_sql, sys_user[u]))}
    /\ pc' = IF Raises(param_sql) THEN "error" ELSE "user_listed"
    /\ UNCHANGED <<tables, current_user, query_alias,
                   param_sql, services>>

\* SysDept.dept_id of the row that SysRole LEFT JOIN sys_user_role LEFT JOIN
\* sys_user LEFT JOIN sys_dept yields for a holder of the role
JoinedDept(u) ==
    IF sys_user[u].dept_id \in DOMAIN sys_dept THEN sys_user[u].dept_id ELSE NULL

\* the joined rows of one role: one per holder, or one all-NULL row
RoleJoinRows(r) ==
    IF \E u \in DOMAIN sys_user : <<u, r>> \in sys_user_role
    THEN {[role_id |-> r, dept_id |-> JoinedDept(u)] :
              u \in {x \in DOMAIN sys_user : <<x, r>> \in sys_user_role}}
    ELSE {[role_id |-> r, dept_id |-> NULL]}

\* the criteria RoleDao.get_role_list hands to where() for one joined row
RoleListCriteria(page, clauses, row) ==
    << Crit(sys_role[row.role_id].del_flag = "0"),
       Optional(page.role_id # NULL, SqlEq(row.role_id, page.role_id)),
       Optional(page.status # "", sys_role[row.role_id].status = page.status),
       or_(clauses, row) >>

\* RoleDao.get_role_list
get_role_list ==
    /\ pc = "scoped"
    /\ query_alias = "SysDept"
    /\ \E r \in RoleIds \cup {NULL}, st \in {"", "0"} :
           page_object' = [dept_id |-> NULL, user_id |-> NULL, role_id |-> r,
                           status |-> st, dept_name |-> ""]
    /\ query_result' =
           {r \in DOMAIN sys_role :
               \E row \in RoleJoinRows(r) :
                   where(RoleListCriteria(page_object', param_sql, row))}
    /\ pc' = IF Raises(param_sql) THEN "error" ELSE "role_listed"
    /\ UNCHANGED <<tables, current_user, query_alias, param_sql, services>>

Next ==
    \/ \E alias \in Aliases : Call(alias)
    \/ get_dept_list
    \/ get_user_list
    \/ get_role_list

Spec == Init /\ [][Next]_vars

NextScope == \E alias \in Aliases : Call(alias)

SpecScope == InitScope /\ [][NextScope]_vars

TypeOK ==
    /\ pc \in {"resolved", "scoped", "dept_listed", "user_listed", "role_listed", "error"}
    /\ query_alias \in Aliases \cup {""}

----------------------------------------------------------------------------
(* Properties *)

\* GetDataScope.__call__ has returned
Built == pc # "resolved"

RoleIdx == 1..Len(current_user.role)

HoldsAll == \E i \in RoleIdx : current_user.role[i].data_scope = DATA_SCOPE_ALL

\* a plain user none of whose roles has scope ALL
Restricted == ~current_user.admin /\ ~HoldsAll

AdmitsAllRows == \A row \in Rows(query_alias) : Admits(param_sql, row)

AdmitsNoRow == \A row \in Rows(query_alias) : ~Admits(param_sql, row)

C1_AdminWithRoleAlwaysTrue ==
    (Built /\ current_user.admin /\ current_user.role # <<>>)
        => param_sql = <<TrueClause>>

\* C1, what the role-less administrator gets: or_() without operands
C1_AdminNoRoleEmptyOr ==
    (Built /\ current_user.admin /\ current_user.role = <<>>) => param_sql = <<>>

\* C2: a plain user with a role of scope ALL gets exactly the always-true
\* predicate, wherever the ALL role stands in the list
C2_AllScopeAlwaysTrue ==
    (Built /\ ~current_user.admin /\ HoldsAll)
        => /\ param_sql = <<TrueClause>>
           /\ AdmitsAllRows

C2_Witness ==
    /\ pc = "scoped"
    /\ ~current_user.admin
    /\ Len(current_user.role) = 2
    /\ current_user.role[1].data_scope = DATA_SCOPE_DEPT
    /\ current_user.role[2].data_scope = DATA_SCOPE_ALL
    /\ query_alias = "SysUser"
    /\ param_sql = <<TrueClause>>

\* C3: a plain user without roles sees no row
C3_NoRolesNoRows ==
    (Built /\ ~current_user.admin /\ current_user.role = <<>>) => AdmitsNoRow

\* the clause the builder emits for a user holding this role alone
RoleCondition(role, row) ==
    EvalClause(RoleClause(query_alias, current_user, role, <<role.role_id>>), row)

\* C4: for a plain user without ALL role a row is admitted exactly when the
\* scope condition of at least one held role admits it
C4_OrOverRoles ==
    (Built /\ Restricted)
        => \A row \in Rows(query_alias) :
               Admits(param_sql, row)
                   <=> \E i \in RoleIdx : RoleCondition(current_user.role[i], row)

\* C4, the part that holds: the same for a user holding at least one role
C4_OrOverRolesNonEmpty ==
    (Built /\ Restricted /\ current_user.role # <<>>)
        => \A row \in Rows(query_alias) :
               Admits(param_sql, row)
                   <=> \E i \in RoleIdx : RoleCondition(current_user.role[i], row)

\* rows of sys_dept, of sys_user and joined rows of sys_role that the
\* predicate alone lets through
ScopedDepts == {d \in DOMAIN sys_dept : Admits(param_sql, sys_dept[d])}
ScopedUsers == {u \in DOMAIN sys_user : Admits(param_sql, sys_user[u])}
ScopedRoles ==
    {r \in DOMAIN sys_role : \E row \in RoleJoinRows(r) : Admits(param_sql, row)}

\* C5: whatever the search filters, a list query returns only rows that the
\* data-scope predicate admits
C5_ListWithinScope ==
    /\ pc = "dept_listed" => query_result \subseteq ScopedDepts
    /\ pc = "user_listed" => query_result \subseteq ScopedUsers
    /\ pc = "role_listed" => query_result \subseteq ScopedRoles

\* a filtered department list from which the predicate has removed a
\* department that passes the filters
C5_Witness ==
    /\ pc = "dept_listed"
    /\ page_object.status = "0"
    /\ page_object.dept_id = NULL
    /\ query_result # {}
    /\ \E d \in DOMAIN sys_dept :
           /\ sys_dept[d].status = "0"
           /\ sys_dept[d].del_flag = "0"
           /\ d \notin query_result

\* the role list without the roles of unrecognized scope
RECURSIVE RecognizedOnly(_)
RecognizedOnly(roles) ==
    IF roles = <<>> THEN <<>>
    ELSE IF Head(roles).data_scope \in Recognized
         THEN <<Head(roles)>> \o RecognizedOnly(Tail(roles))
         ELSE RecognizedOnly(Tail(roles))

WithoutUnrecognized ==
    [current_user EXCEPT !.role = RecognizedOnly(current_user.role)]

\* the clause role number i appends when the loop reaches it
AppendedBy(i) ==
    RoleClause(query_alias, current_user, current_user.role[i],
               custom_data_scope_role_id_list(current_user.role))

\* C6: a role of unrecognized scope contributes a sub-predicate that is false
\* on every row, the builder does not raise, and the user sees no row that
\* the same user without that role would not see
C6_UnknownScopeFailsClosed ==
    Built =>
        /\ ~Raises(param_sql)
        /\ Restricted =>
               \A i \in RoleIdx :
                   current_user.role[i].data_scope \notin Recognized
                       => /\ Contains(param_sql, AppendedBy(i))
                          /\ \A row \in Rows(query_alias) :
                                 ~EvalClause(AppendedBy(i), row)
        /\ \A row \in Rows(query_alias) :
               Admits(param_sql, row)
                   => Admits(GetDataScope(query_alias, WithoutUnrecognized), row)

C6_Witness ==
    /\ pc = "scoped"
    /\ ~current_user.admin
    /\ Len(current_user.role) = 2
    /\ current_user.role[1].data_scope = "6"
    /\ current_user.role[2].data_scope = DATA_SCOPE_DEPT
    /\ query_alias = "SysUser"
    /\ param_sql[1] = FalseClause
    /\ \E row \in Rows(query_alias) : ~Admits(param_sql, row)

\* the attribute a scope reads from the queried class
NeededField(data_scope) ==
    IF data_scope = DATA_SCOPE_SELF THEN "user_id" ELSE "dept_id"

FieldScopes == {DATA_SCOPE_CUSTOM, DATA_SCOPE_DEPT, DATA_SCOPE_DEPT_AND_CHILD,
                DATA_SCOPE_SELF}

\* C7: when the queried class lacks the field a role's scope needs, the role's
\* sub-predicate is false on every row and evaluating it raises nothing
C7_MissingFieldFailsClosed ==
    (Built /\ Restricted) =>
        \A i \in RoleIdx :
            ( /\ current_user.role[i].data_scope \in FieldScopes
              /\ ~hasattr(query_alias, NeededField(current_user.role[i].data_scope)) )
                => /\ Contains(param_sql, AppendedBy(i))
                   /\ ~ClauseRaises(AppendedBy(i))
                   /\ \A row \in Rows(query_alias) : ~EvalClause(AppendedBy(i), row)

\* a DEPT role of a user without department, queried on a class without
\* department field
C7_Witness ==
    /\ pc = "scoped"
    /\ ~current_user.admin
    /\ Len(current_user.role) = 1
    /\ current_user.role[1].data_scope = DATA_SCOPE_DEPT
    /\ current_user.dept_id = NULL
    /\ query_alias = "SysUserRole"
    /\ AdmitsNoRow

CustomIdx == {i \in RoleIdx : current_user.role[i].data_scope = DATA_SCOPE_CUSTOM}

\* the CUSTOM sub-predicates of the returned text
CustomClauses ==
    {i \in 1..Len(param_sql) : param_sql[i].kind \in {"custom_in", "custom_eq"}}

\* departments granted to the CUSTOM roles the user holds
GrantedUnion == UNION {sys_role_dept[current_user.role[i].role_id] : i \in CustomIdx}

\* the row carries a department and it is one of ds
DeptIn(row, ds) ==
    /\ hasattr(query_alias, "dept_id")
    /\ "dept_id" \in DOMAIN row
    /\ row.dept_id \in ds

\* C8: two or more CUSTOM roles give exactly one CUSTOM sub-predicate, which
\* admits exactly the rows whose department is in the union of the roles' grants
C8_CustomUnionSingleClause ==
    (Built /\ Restricted /\ Cardinality(CustomIdx) >= 2) =>
        /\ Cardinality(CustomClauses) = 1
        /\ \A c \in CustomClauses : \A row \in Rows(query_alias) :
               EvalClause(param_sql[c], row) <=> DeptIn(row, GrantedUnion)

\* two CUSTOM roles with different grants, neither covering the other's
C8_Witness ==
    /\ pc = "scoped"
    /\ ~current_user.admin
    /\ Len(current_user.role) = 2
    /\ Cardinality(CustomIdx) = 2
    /\ current_user.role[1].role_id # current_user.role[2].role_id
    /\ sys_role_dept[1] = {1}
    /\ sys_role_dept[2] = {2, MaxDept}
    /\ query_alias = "SysUser"
    /\ Cardinality(CustomClauses) = 1
    /\ \E row \in Rows(query_alias) : row.dept_id = 1 /\ Admits(param_sql, row)
    /\ \E row \in Rows(query_alias) : row.dept_id = 2 /\ Admits(param_sql, row)

\* C9: exactly one CUSTOM role, on a class with department field: its
\* sub-predicate, and the whole predicate when it is the only role, admits
\* exactly the rows whose department was granted to that role
C9_SingleCustomGrants ==
    (Built /\ Restricted /\ Cardinality(CustomIdx) = 1 /\ hasattr(query_alias, "dept_id")) =>
        /\ Cardinality(CustomClauses) = 1
        /\ \A c \in CustomClauses : \A row \in Rows(query_alias) :
               EvalClause(param_sql[c], row) <=> DeptIn(row, GrantedUnion)
        /\ Len(current_user.role) = 1 =>
               \A row \in Rows(query_alias) :
                   Admits(param_sql, row) <=> DeptIn(row, GrantedUnion)

\* the single CUSTOM role is granted {2, MaxDept} while the other role id is
\* granted {1}: department 2 is admitted, department 1 is not
C9_Witness ==
    /\ pc = "scoped"
    /\ ~current_user.admin
    /\ Len(current_user.role) = 1
    /\ current_user.role[1] = [role_id |-> 2, data_scope |-> DATA_SCOPE_CUSTOM]
    /\ sys_role_dept[1] = {1}
    /\ sys_role_dept[2] = {2, MaxDept}
    /\ query_alias = "SysDept"
    /\ Admits(param_sql, sys_dept[2])
    /\ ~Admits(param_sql, sys_dept[1])

\* ids listed in the ancestors chain of department d
AncestorsOf(d) == {sys_dept[d].ancestors[i] : i \in 1..Len(sys_dept[d].ancestors)}

\* the row's department is the user's department or a department below it
OwnOrBelow(row) ==
    /\ "dept_id" \in DOMAIN row
    /\ row.dept_id \in DOMAIN sys_dept
    /\ \/ row.dept_id = current_user.dept_id
       \/ current_user.dept_id \in AncestorsOf(row.dept_id)

OnlyDeptAndChild ==
    /\ current_user.role # <<>>
    /\ \A i \in RoleIdx : current_user.role[i].data_scope = DATA_SCOPE_DEPT_AND_CHILD

\* C10: with only a DEPT_AND_CHILD role, a row is admitted exactly when its
\* department is the user's own or one whose ancestors chain holds the user's
C10_DeptAndChild ==
    (Built /\ ~current_user.admin /\ OnlyDeptAndChild /\ hasattr(query_alias, "dept_id")) =>
        \A row \in Rows(query_alias) : Admits(param_sql, row) <=> OwnOrBelow(row)

\* a user of department 2: department 2 and its child 4 are admitted, the
\* parent 1 and the sibling 3 are not
C10_Witness ==
    /\ pc = "scoped"
    /\ ~current_user.admin
    /\ OnlyDeptAndChild
    /\ current_user.dept_id = 2
    /\ query_alias = "SysDept"
    /\ Admits(param_sql, sys_dept[2])
    /\ Admits(param_sql, sys_dept[4])
    /\ ~Admits(param_sql, sys_dept[1])
    /\ ~Admits(param_sql, sys_dept[3])

OnlyScope(scope) ==
    /\ current_user.role # <<>>
    /\ \A i \in RoleIdx : current_user.role[i].data_scope = scope

\* C11: with only a DEPT role, a row is admitted exactly when its department
\* is the user's own department; departments below it and all others are not
C11_DeptOnly ==
    (Built /\ ~current_user.admin /\ OnlyScope(DATA_SCOPE_DEPT)
           /\ hasattr(query_alias, "dept_id")) =>
        \A row \in Rows(query_alias) :
            Admits(param_sql, row) <=> row.dept_id = current_user.dept_id

\* a user of department 2: department 2 is admitted, its child 4, its parent 1
\* and its sibling 3 are not
C11_Witness ==
    /\ pc = "scoped"
    /\ ~current_user.admin
    /\ OnlyScope(DATA_SCOPE_DEPT)
    /\ current_user.dept_id = 2
    /\ query_alias = "SysDept"
    /\ Admits(param_sql, sys_dept[2])
    /\ ~Admits(param_sql, sys_dept[4])
    /\ ~Admits(param_sql, sys_dept[1])
    /\ ~Admits(param_sql, sys_dept[3])

\* C12: with only a SELF role, a row is admitted exactly when its owner-user
\* field is the current user's id
C12_SelfOnly ==
    (Built /\ ~current_user.admin /\ OnlyScope(DATA_SCOPE_SELF)
           /\ hasattr(query_alias, "user_id")) =>
        \A row \in Rows(query_alias) :
            Admits(param_sql, row) <=> row.user_id = current_user.user_id

\* user 1 of department 1: the own row is admitted, the row of another user of
\* the same department is not
C12_Witness ==
    /\ pc = "scoped"
    /\ ~current_user.admin
    /\ OnlyScope(DATA_SCOPE_SELF)
    /\ current_user.user_id = 1
    /\ query_alias = "SysUser"
    /\ Admits(param_sql, [user_id |-> 1, dept_id |-> 1])
    /\ ~Admits(param_sql, [user_id |-> 2, dept_id |-> 1])

----------------------------------------------------------------------------
(* Write requests of the CRUD services: one AsyncSession per request, whose *)
(* statements become visible to others at commit()                          *)

\* longest id list of a batch request
MaxBatch == 2

\* sequences over S of length 1..n
SeqsUpTo(S, n) == UNION {[1..k -> S] : k \in 1..n}

\* users of the write requests: departments 1 and 3 have a user
TxUser ==
    [u \in UserIds |->
        [SeedUser[u] EXCEPT !.dept_id = IF u \in {1, 3} THEN u ELSE NULL]]

\* SELECT count(*) FROM sys_dept WHERE del_flag = '0' AND parent_id = dept_id
count_children_dept_dao(db, dept_id) ==
    Cardinality({d \in DOMAIN db : db[d].del_flag = "0" /\ db[d].parent_id = dept_id})

\* SELECT count(*) FROM sys_user WHERE dept_id = dept_id AND del_flag = '0'
count_dept_user_dao(dept_id) ==
    Cardinality({u \in DOMAIN sys_user :
                    sys_user[u].dept_id = dept_id /\ sys_user[u].del_flag = "0"})

\* UPDATE sys_dept SET del_flag = '2' WHERE dept_id = dept_id
delete_dept_dao(db, dept_id) ==
    [d \in DOMAIN db |-> IF d = dept_id THEN [db[d] EXCEPT !.del_flag = "2"] ELSE db[d]]

\* the loop of delete_dept_services over the session's view db; a token that
\* int() cannot parse (NULL) raises like the two blocking conditions
RECURSIVE DeleteDeptLoop(_, _)
DeleteDeptLoop(db, dept_id_list) ==
    IF dept_id_list = <<>> THEN [db |-> db, raised |-> FALSE]
    ELSE LET dept_id == Head(dept_id_list) IN
         IF dept_id = NULL THEN [db |-> db, raised |-> TRUE]
         ELSE IF count_children_dept_dao(db, dept_id) > 0
              THEN [db |-> db, raised |-> TRUE]
         ELSE IF count_dept_user_dao(dept_id) > 0
              THEN [db |-> db, raised |-> TRUE]
         ELSE DeleteDeptLoop(delete_dept_dao(db, dept_id), Tail(dept_id_list))

Persisted == <<sys_dept, sys_dict_data, cps_file>>

\* DeptService.delete_dept_services: commit after the loop, rollback on any
\* exception; an empty dept_ids raises before the session is used
delete_dept_services ==
    \E dept_id_list \in SeqsUpTo(DeptIds \cup {NULL}, MaxBatch) \cup {<<>>} :
        LET run == DeleteDeptLoop(sys_dept, dept_id_list)
            ok == dept_id_list # <<>> /\ ~run.raised
        IN  /\ sys_dept' = IF ok THEN run.db ELSE sys_dept
            /\ write_request' = [service |-> "delete_dept",
                                 outcome |-> IF ok THEN "success" ELSE "exception",
                                 targets |-> {}]
            /\ persisted_before' = Persisted
            /\ UNCHANGED <<sys_user, sys_role, sys_user_role, sys_role_dept,
                           sys_dict_data, cps_file, redis_sys_dict, outside_tx>>

\* FileDao.get_file_detail_by_id: the file unless soft-deleted
get_file_detail_by_id(db, file_id) ==
    IF file_id \in DOMAIN db /\ ~db[file_id].is_deleted THEN {db[file_id]} ELSE {}

\* FileService.check_file_permission_services returns True
check_file_permission_services(db, file_id, user_id) ==
    \E file_info \in get_file_detail_by_id(db, file_id) :
        file_info.upload_user_id = user_id

\* UPDATE cps_file SET is_deleted = TRUE WHERE file_id IN file_ids
batch_soft_delete_files_dao(db, file_ids) ==
    [f \in DOMAIN db |->
        IF Contains(file_ids, f) THEN [db[f] EXCEPT !.is_deleted = TRUE] ELSE db[f]]

\* FileService.batch_delete_files_services: tokens that are blank or not an
\* integer (NULL) are skipped, every file is checked, then all are deleted
batch_delete_files_services ==
    \E file_ids \in SeqsUpTo(FileIds \cup {NULL}, MaxBatch) \cup {<<>>} :
        LET file_id_list == SelectSeq(file_ids, LAMBDA t : t # NULL)
            ok == /\ file_id_list # <<>>
                  /\ \A i \in 1..Len(file_id_list) :
                         check_file_permission_services(cps_file, file_id_list[i],
                                                        current_user.user_id)
        IN  /\ cps_file' = IF ok THEN batch_soft_delete_files_dao(cps_file, file_id_list)
                           ELSE cps_file
            /\ write_request' = [service |-> "batch_delete_files",
                                 outcome |-> IF ok THEN "success" ELSE "exception",
                                 targets |-> {}]
            /\ persisted_before' = Persisted
            /\ UNCHANGED <<tables, sys_dict_data, redis_sys_dict, outside_tx>>

\* DictDataService.add_dict_data_services: the insert is committed, then the
\* list is read back and written to Redis inside the same try; redis_raises
\* is a Redis command failing (connection lost)
add_dict_data_services ==
    \E dict_label \in DictLabels, redis_raises \in BOOLEAN :
        LET unique == dict_label \notin sys_dict_data IN
        /\ sys_dict_data' = IF unique THEN sys_dict_data \cup {dict_label}
                            ELSE sys_dict_data
        /\ redis_sys_dict' = IF unique /\ ~redis_raises THEN sys_dict_data'
                             ELSE redis_sys_dict
        /\ write_request' = [service |-> "add_dict_data",
                             outcome |-> IF unique /\ ~redis_raises THEN "success"
                                         ELSE "exception",
                             targets |-> {}]
        /\ persisted_before' = Persisted
        /\ UNCHANGED <<tables, cps_file, outside_tx>>

InitTx ==
    /\ ServicesIdle
    /\ sys_dept = SeedDept
    /\ sys_user = TxUser
    /\ sys_role = SeedRole
    /\ sys_user_role = SeedUserRole
    /\ sys_role_dept = SeedRoleDept
    /\ \E u \in FileIds :
           current_user = [user_id |-> u, dept_id |-> TxUser[u].dept_id,
                           admin |-> FALSE, role |-> <<>>]
    /\ query_alias = ""
    /\ param_sql = <<>>
    /\ pc = "resolved"
    /\ page_object = NoFilter
    /\ query_result = {}

NextTx ==
    \/ delete_dept_services
    \/ batch_delete_files_services
    \/ add_dict_data_services

SpecTx == InitTx /\ [][NextTx]_vars

\* C13: whenever a write request ends with an exception, none of its changes
\* are persisted: the committed tables are what they were when it started.
C13_ExceptionPersistsNothing ==
    write_request.outcome = "exception" => Persisted = persisted_before

\* the batch delete of the claim's example: a failing delete_dept_services or
\* batch_delete_files_services leaves every item undeleted
C13_BatchDeleteAtomic ==
    (write_request.outcome = "exception"
        /\ write_request.service \in {"delete_dept", "batch_delete_files"}) =>
        Persisted = persisted_before

----------------------------------------------------------------------------
(* Concurrent calls of one GetDataScope instance: __call__ is a plain def,  *)
(* so each request runs it on its own thread, statement by statement        *)

Threads == {1, 2}

\* role lists whose i-th role has role_id i
ThreadRoleLists ==
    {r \in RoleLists : Len(r) <= Cardinality(RoleIds)
                       /\ \A i \in 1..Len(r) : r[i].role_id = i}

\* a few role lists for the second request
OtherRoleLists ==
    {<<>>,
     <<[role_id |-> 1, data_scope |-> DATA_SCOPE_SELF]>>,
     <<[role_id |-> 1, data_scope |-> DATA_SCOPE_CUSTOM],
       [role_id |-> 2, data_scope |-> DATA_SCOPE_CUSTOM]>>,
     <<[role_id |-> 1, data_scope |-> DATA_SCOPE_DEPT],
       [role_id |-> 2, data_scope |-> DATA_SCOPE_ALL]>>}

\* the frame of __call__ when FastAPI invokes it with the request's user
Frame(user) ==
    [current_user |-> user, pc |-> "called", i |-> 1,
     custom_data_scope_role_id_list |-> <<>>, param_sql_list |-> <<>>,
     param_sql |-> <<>>]

\* param_sql_list read from the first thread's frame, as if it were an
\* attribute of the shared instance
own_param_sql_list_Shared(ts, t) == ts[1].param_sql_list

\* the local param_sql_list of thread t
own_param_sql_list(ts, t) == ts[t].param_sql_list

\* lines 69-79: the locals before the loop
enter(t) ==
    /\ threads[t].pc = "called"
    /\ threads' = [threads EXCEPT
           ![t].custom_data_scope_role_id_list =
               custom_data_scope_role_id_list(threads[t].current_user.role),
           ![t].param_sql_list = <<>>,
           ![t].i = 1,
           ![t].pc = "loop"]
    /\ UNCHANGED outside_threads

\* one iteration of "for role in current_user.user.role"
iterate(t) ==
    LET f == threads[t]
        user == f.current_user
    IN  /\ f.pc = "loop"
        /\ f.i <= Len(user.role)
        /\ threads' =
               IF ShortCircuit(user, user.role[f.i])
               THEN [threads EXCEPT
                        ![t].param_sql_list = ResetList(own_param_sql_list(threads, t)),
                        ![t].pc = "after_loop"]
               ELSE [threads EXCEPT
                        ![t].param_sql_list =
                            Append(own_param_sql_list(threads, t),
                                   RoleClause(query_alias, user, user.role[f.i],
                                              f.custom_data_scope_role_id_list)),
                        ![t].i = f.i + 1]
        /\ UNCHANGED outside_threads

\* lines 123-128: the loop is over, the list is deduplicated and returned
return(t) ==
    LET f == threads[t] IN
    /\ \/ f.pc = "after_loop"
       \/ f.pc = "loop" /\ f.i > Len(f.current_user.role)
    /\ threads' = [threads EXCEPT
           ![t].param_sql = Dedup(own_param_sql_list(threads, t)),
           ![t].pc = "returned"]
    /\ UNCHANGED outside_threads

InitThreads ==
    /\ SeedTables
    /\ TxIdle
    /\ InterfaceIdle
    /\ LoginIdle
    /\ query_alias \in Aliases
    /\ \E a \in BOOLEAN, r1 \in ThreadRoleLists, r2 \in OtherRoleLists :
           threads = [t \in Threads |->
               Frame([user_id |-> t, dept_id |-> SeedUser[t].dept_id,
                      admin |-> IF t = 1 THEN a ELSE FALSE,
                      role |-> IF t = 1 THEN r1 ELSE r2])]
    /\ current_user = [user_id |-> 1, dept_id |-> 1, admin |-> FALSE, role |-> <<>>]
    /\ param_sql = <<>>
    /\ pc = "resolved"
    /\ page_object = NoFilter
    /\ query_result = {}

NextThreads ==
    \E t \in Threads : enter(t) \/ iterate(t) \/ return(t)

SpecThreads == InitThreads /\ [][NextThreads]_vars

\* C14: a step of an invocation changes neither any request's current user,
\* nor the attributes of the shared instance, nor stored data, and the value
\* an invocation returns is the predicate of that request's own user for the
\* instance's alias, however the invocations interleave.
C14_StatelessBuilder ==
    [][/\ query_alias' = query_alias
       /\ tables' = tables
       /\ <<sys_dict_data, cps_file, redis_sys_dict>>' =
              <<sys_dict_data, cps_file, redis_sys_dict>>
       /\ \A t \in Threads :
              /\ threads'[t].current_user = threads[t].current_user
              /\ threads'[t].pc = "returned" =>
                     threads'[t].param_sql =
                         GetDataScope(query_alias, threads[t].current_user)]_vars

\* the first request has returned its own predicate while the second one,
\* of another user, is in the middle of its loop with a clause appended
C14_Witness ==
    /\ threads # <<>>
    /\ threads[1].pc = "returned"
    /\ threads[1].param_sql = <<DeptClause(query_alias, 1)>>
    /\ threads[2].pc = "loop"
    /\ threads[2].i = 2
    /\ threads[2].param_sql_list # <<>>
    /\ threads[2].param_sql_list # threads[1].param_sql

----------------------------------------------------------------------------
(* Login throttling: LoginService.authenticate_user, one step per group of  *)
(* awaits that touches the Redis keys of the username                       *)

\* "if password_error_count > 5"
LOCK_THRESHOLD == 5

\* ex=timedelta(minutes=10) of the error counter and of the lock
TEN_MINUTES == 10

\* the clock advances in steps of five minutes
TickMinutes == 5

\* most wrong-password attempts followed within one streak
MaxStreak == 6

Attempts == {1, 2}

user_name == "admin"

\* what a login attempt brings: its IP, captcha, username and password
AttemptKinds ==
    {"black_ip", "bad_captcha", "no_user", "wrong_password", "disabled", "correct"}

NewAttempt == [pc |-> "idle", kind |-> "", password_error_count |-> 0, response |-> ""]

InFlight(a) == attempts[a].pc \notin {"idle", "done"}

Respond(a, kind, response) ==
    [attempts EXCEPT ![a] = [pc |-> "done", kind |-> kind,
                             password_error_count |-> 0, response |-> response]]

\* the lock test that never finds the account locked
IsLocked_Never(name, lock) == FALSE

\* "if login_user.user_name == account_lock"
IsLocked(name, lock) == name = lock.value

\* the threshold reached already by the fifth error
ExceedsThreshold_AtFive(count) == count >= LOCK_THRESHOLD

ExceedsThreshold(count) == count > LOCK_THRESHOLD

\* a wrong-password attempt has completed: one more in the streak
Counted == [streak EXCEPT !.n = streak.n + 1, !.age = IF streak.n = 0 THEN 0 ELSE streak.age]

\* the streak starts again; clean tells whether nothing is stored for the name
Restart(count, lock) == [n |-> 0, age |-> 0, clean |-> count = NoKey /\ lock = NoLock]

\* lines 95-103: __check_login_ip, then the lock is read and tested
check_login(a) ==
    \E kind \in AttemptKinds :
        /\ attempts[a].pc \in {"idle", "done"}
        /\ streak.n < MaxStreak
        /\ attempts' =
               IF kind = "black_ip" THEN Respond(a, kind, "ip_forbidden")
               ELSE IF IsLocked(user_name, account_lock)
                    THEN Respond(a, kind, "account_locked")
               ELSE [attempts EXCEPT ![a] = [NewAttempt EXCEPT !.pc = "unlocked",
                                                                !.kind = kind]]
        /\ UNCHANGED <<password_error_count, account_lock, streak>>

\* lines 116-144 and 176-184: captcha, user lookup and password test; a wrong
\* password reads the counter, a right one deletes it
verify(a) ==
    LET kind == attempts[a].kind IN
    /\ attempts[a].pc = "unlocked"
    /\ IF kind = "bad_captcha"
       THEN /\ attempts' = Respond(a, kind, "captcha_error")
            /\ UNCHANGED <<password_error_count, streak>>
       ELSE IF kind = "no_user"
       THEN /\ attempts' = Respond(a, kind, "no_user")
            /\ UNCHANGED <<password_error_count, streak>>
       ELSE IF kind = "wrong_password"
       THEN /\ attempts' = [attempts EXCEPT
                   ![a].password_error_count =
                       (IF password_error_count = NoKey THEN 0
                        ELSE password_error_count.value) + 1,
                   ![a].pc = "counted"]
            /\ UNCHANGED <<password_error_count, streak>>
       ELSE IF kind = "disabled"
       THEN /\ attempts' = Respond(a, kind, "user_disabled")
            /\ UNCHANGED <<password_error_count, streak>>
       ELSE /\ attempts' = Respond(a, kind, "success")
            /\ password_error_count' = NoKey
            /\ streak' = Restart(NoKey, account_lock)
    /\ UNCHANGED account_lock

\* lines 147-154 and 173: the counter is written with a fresh expiry
set_count(a) ==
    LET count == attempts[a].password_error_count IN
    /\ attempts[a].pc = "counted"
    /\ password_error_count' = [value |-> count, ttl |-> TEN_MINUTES]
    /\ IF ExceedsThreshold(count)
       THEN /\ attempts' = [attempts EXCEPT ![a].pc = "over"]
            /\ UNCHANGED streak
       ELSE /\ attempts' = Respond(a, attempts[a].kind, "password_error")
            /\ streak' = Counted
    /\ UNCHANGED account_lock

\* lines 156-158: the counter is deleted
delete_count(a) ==
    /\ attempts[a].pc = "over"
    /\ password_error_count' = NoKey
    /\ attempts' = [attempts EXCEPT ![a].pc = "deleted"]
    /\ UNCHANGED <<account_lock, streak>>

\* lines 161-169: the lock is set for ten minutes
set_lock(a) ==
    /\ attempts[a].pc = "deleted"
    /\ account_lock' = [value |-> user_name, ttl |-> TEN_MINUTES]
    /\ attempts' = Respond(a, attempts[a].kind, "locked_now")
    /\ streak' = Counted
    /\ UNCHANGED password_error_count

\* one step of attempt a
Step(a) ==
    /\ check_login(a) \/ verify(a) \/ set_count(a) \/ delete_count(a) \/ set_lock(a)
    /\ UNCHANGED <<tables, list_request, sys_dict_data, cps_file, redis_sys_dict,
                   write_request, persisted_before, threads, sessions, interface>>

\* a key five minutes later: Redis drops it when its expiry is reached
Later(key, none) ==
    IF key.ttl <= TickMinutes THEN none
    ELSE [key EXCEPT !.ttl = key.ttl - TickMinutes]

\* five minutes pass while no attempt is being handled
Tick ==
    /\ \A a \in Attempts : ~InFlight(a)
    /\ password_error_count' = Later(password_error_count, NoKey)
    /\ account_lock' = Later(account_lock, NoLock)
    /\ streak' =
           IF streak.n = 0 \/ streak.age + TickMinutes >= TEN_MINUTES
           THEN Restart(password_error_count', account_lock')
           ELSE [streak EXCEPT !.age = streak.age + TickMinutes]
    /\ UNCHANGED <<attempts, tables, list_request, sys_dict_data, cps_file,
                   redis_sys_dict, write_request, persisted_before, threads,
                   sessions, interface>>

InitThrottle ==
    /\ SeedTables
    /\ ListIdle
    /\ TxIdle
    /\ InterfaceIdle
    /\ threads = <<>>
    /\ password_error_count = NoKey
    /\ account_lock = NoLock
    /\ attempts = [a \in Attempts |-> NewAttempt]
    /\ streak = NoStreak
    /\ SessionsIdle

\* attempts handled one after the other
NextThrottle ==
    \/ Step(1)
    \/ Tick

SpecThrottle == InitThrottle /\ [][NextThrottle]_vars

\* attempts handled concurrently
NextRace ==
    \/ \E a \in Attempts : Step(a)
    \/ Tick

SpecRace == InitThrottle /\ [][NextRace]_vars

\* attempt a completes as a wrong-password attempt in this step
CompletesWrong(a) ==
    /\ attempts[a].pc # "done"
    /\ attempts'[a].pc = "done"
    /\ attempts'[a].response \in {"password_error", "locked_now"}

Begins(a) ==
    /\ attempts[a].pc \in {"idle", "done"}
    /\ attempts'[a] # attempts[a]

\* C17 (as stated): while the lock entry of the username exists, every login
\* attempt is rejected with 'account locked' and changes neither the lock nor
\* the error counter.
C17_LockedRejectsAll ==
    [][\A a \in Attempts :
          (Begins(a) /\ account_lock # NoLock) =>
              /\ attempts'[a].pc = "done"
              /\ attempts'[a].response = "account_locked"
              /\ account_lock' = account_lock
              /\ password_error_count' = password_error_count]_vars

\* C17 (amended): while the lock entry of the username exists, every login
\* attempt is rejected and changes neither the lock nor the error counter;
\* the answer is 'account locked', even for the correct password, unless the
\* request's IP is blacklisted, which is answered first with 'IP forbidden'.
C17_LockedRejects ==
    [][\A a \in Attempts :
          (Begins(a) /\ account_lock # NoLock) =>
              /\ attempts'[a].pc = "done"
              /\ attempts'[a].response =
                     IF attempts'[a].kind = "black_ip" THEN "ip_forbidden"
                     ELSE "account_locked"
              /\ account_lock' = account_lock
              /\ password_error_count' = password_error_count]_vars

\* five minutes into the lock the correct password is answered 'account locked'
C17_Witness ==
    /\ attempts # <<>>
    /\ account_lock = [value |-> user_name, ttl |-> TEN_MINUTES - TickMinutes]
    /\ attempts[1].pc = "done"
    /\ attempts[1].kind = "correct"
    /\ attempts[1].response = "account_locked"

\* no attempt is being handled
Quiescent == attempts # <<>> /\ \A a \in Attempts : ~InFlight(a)

\* C18: once n wrong-password attempts of a streak have completed, the stored
\* error count is n when n is at most 5 and the account is locked when n
\* exceeds 5, however the attempts' reads and writes interleaved.
C18_NoLostFailure ==
    (Quiescent /\ streak.clean /\ streak.n >= 1) =>
        /\ streak.n <= LOCK_THRESHOLD => password_error_count.value = streak.n
        /\ streak.n > LOCK_THRESHOLD => IsLocked(user_name, account_lock)

----------------------------------------------------------------------------
(* Sessions: login stores the token in Redis, get_current_user accepts a    *)
(* token equal to the stored one and renews it, logout deletes a key        *)

\* most logins followed
MaxSessions == 3

LoginUsers == {1, 2}

Requests == {1, 2}

\* uuid.uuid4() of the k-th login
SessionIds == 1..MaxSessions

\* ACCESS_TOKEN:{session_id}
SessionKey(session_id) == [of |-> "session", id |-> session_id]

\* ACCESS_TOKEN:{user_id}
UserKey(user_id) == [of |-> "user", id |-> user_id]

RedisKeys == {SessionKey(s) : s \in SessionIds} \cup {UserKey(u) : u \in LoginUsers}

\* redis.get of a key that does not exist
NoToken == [user_id |-> 0, session_id |-> 0]

\* the JWT of a login: its payload carries user_id and session_id
Token(user_id, session_id) == [user_id |-> user_id, session_id |-> session_id]

\* the key logout_services deletes
LogoutKey(token) == SessionKey(token.session_id)

\* the key login writes and get_current_user reads
TokenKey(token) ==
    IF app_same_time_login THEN SessionKey(token.session_id)
    ELSE UserKey(token.user_id)

NewRequest ==
    [pc |-> "idle", token |-> NoToken, result |-> "", after_logout |-> FALSE,
     superseded |-> FALSE]

IssuedTokens == {issued[i] : i \in 1..Len(issued)}

\* the token of the user's latest login
RECURSIVE Latest(_, _)
Latest(tokens, user_id) ==
    IF tokens = <<>> THEN NoToken
    ELSE IF tokens[Len(tokens)].user_id = user_id THEN tokens[Len(tokens)]
    ELSE Latest(SubSeq(tokens, 1, Len(tokens) - 1), user_id)

outside_sessions ==
    <<tables, list_request, sys_dict_data, cps_file, redis_sys_dict, write_request,
      persisted_before, threads, throttle, interface>>

\* POST /login after authenticate_user has returned the user
login_ok(user_id) ==
    /\ Len(issued) < MaxSessions
    /\ LET token == Token(user_id, Len(issued) + 1) IN
       /\ access_token' = [access_token EXCEPT ![TokenKey(token)] = token]
       /\ issued' = Append(issued, token)
    /\ UNCHANGED <<app_same_time_login, auth_requests, logged_out, outside_sessions>>

\* POST /logout with a token of an earlier login
logout(token) ==
    /\ token \in IssuedTokens
    /\ access_token' = [access_token EXCEPT ![LogoutKey(token)] = NoToken]
    /\ logged_out' = logged_out \cup {token}
    /\ UNCHANGED <<app_same_time_login, auth_requests, issued, outside_sessions>>

\* get_current_user, lines 274-308: the token is decoded, the stored token is
\* read and compared
read_token(r, token) ==
    /\ auth_requests[r].pc \in {"idle", "done"}
    /\ token \in IssuedTokens
    /\ auth_requests' = [auth_requests EXCEPT ![r] =
           [pc |-> IF access_token[TokenKey(token)] = token THEN "matched" ELSE "done",
            token |-> token,
            result |-> IF access_token[TokenKey(token)] = token THEN "" ELSE "rejected",
            after_logout |-> token \in logged_out,
            superseded |-> Latest(issued, token.user_id) # token]]
    /\ UNCHANGED <<app_same_time_login, access_token, issued, logged_out,
                   outside_sessions>>

\* get_current_user, lines 308-347: the token that was read is written back
\* with a new expiry and the user is returned
renew_token(r) ==
    /\ auth_requests[r].pc = "matched"
    /\ access_token' = [access_token EXCEPT ![TokenKey(auth_requests[r].token)] =
                                                auth_requests[r].token]
    /\ auth_requests' = [auth_requests EXCEPT ![r].pc = "done",
                                              ![r].result = "accepted"]
    /\ UNCHANGED <<app_same_time_login, issued, logged_out, outside_sessions>>

\* a stored token reaches its expiry (jwt_redis_expire_minutes)
expire(key) ==
    /\ access_token[key] # NoToken
    /\ access_token' = [access_token EXCEPT ![key] = NoToken]
    /\ UNCHANGED <<app_same_time_login, auth_requests, issued, logged_out,
                   outside_sessions>>

InitSessions ==
    /\ SeedTables
    /\ ListIdle
    /\ TxIdle
    /\ InterfaceIdle
    /\ threads = <<>>
    /\ ThrottleIdle
    /\ app_same_time_login \in BOOLEAN
    /\ access_token = [k \in RedisKeys |-> NoToken]
    /\ auth_requests = [r \in Requests |-> NewRequest]
    /\ issued = <<>>
    /\ logged_out = {}

NextSessions ==
    \/ \E u \in LoginUsers : login_ok(u)
    \/ \E u \in LoginUsers, s \in SessionIds : logout(Token(u, s))
    \/ \E r \in Requests, u \in LoginUsers, s \in SessionIds : read_token(r, Token(u, s))
    \/ \E r \in Requests : renew_token(r)
    \/ \E k \in RedisKeys : expire(k)

SpecSessions == InitSessions /\ [][NextSessions]_vars

\* C15: a request that presents a token after the logout made with that
\* token has completed is rejected, in either login mode.
C15_LogoutInvalidates ==
    auth_requests # <<>> =>
        \A r \in Requests :
            auth_requests[r].after_logout => auth_requests[r].result # "accepted"

\* get_current_user would accept the token now
Accepted(token) == access_token[TokenKey(token)] = token

\* C19: when simultaneous logins are not allowed, at most one token per user
\* is accepted at any moment, and a request that presents the token of an
\* earlier login after the user has logged in again is rejected.
C19_SingleLogin ==
    (auth_requests # <<>> /\ ~app_same_time_login) =>
        /\ \A u \in LoginUsers :
               Cardinality({t \in IssuedTokens : t.user_id = u /\ Accepted(t)}) <= 1
        /\ \A r \in Requests :
               auth_requests[r].superseded => auth_requests[r].result # "accepted"

\* the first half of C19 alone: one stored token per user
C19_OneTokenPerUser ==
    (auth_requests # <<>> /\ ~app_same_time_login) =>
        \A u \in LoginUsers :
            Cardinality({t \in IssuedTokens : t.user_id = u /\ Accepted(t)}) <= 1

----------------------------------------------------------------------------
(* Department endpoints guarded by check_dept_data_scope_services           *)

DEPT_NORMAL == "0"
DEPT_DISABLE == "1"

\* role lists of the requests' users: none, one role of each scope, two
\* CUSTOM roles
DeptRoleLists ==
    {<<>>} \cup {<<[role_id |-> 1, data_scope |-> s]>> : s \in DataScopes}
           \cup {<<[role_id |-> 1, data_scope |-> DATA_SCOPE_CUSTOM],
                    [role_id |-> 2, data_scope |-> DATA_SCOPE_CUSTOM]>>}

\* the users behind the requests: user 1 of department 1 and user 3 of
\* department 3 with each role list, and an administrator
DeptActors ==
    {[user_id |-> u, dept_id |-> TxUser[u].dept_id, admin |-> FALSE, role |-> r] :
        u \in {1, 3}, r \in DeptRoleLists}
    \cup {[user_id |-> 1, dept_id |-> TxUser[1].dept_id, admin |-> TRUE,
           role |-> <<[role_id |-> 1, data_scope |-> DATA_SCOPE_SELF]>>]}

\* the check that lets every department through
check_dept_data_scope_services_Open(clauses, dept_id) == TRUE

\* DeptService.check_dept_data_scope_services does not raise: get_dept_list
\* filtered by the department id returns a row
check_dept_data_scope_services(clauses, dept_id) ==
    \E d \in DOMAIN sys_dept :
        where(DeptListCriteria([NoFilter EXCEPT !.dept_id = dept_id], clauses,
                               sys_dept[d]))

\* "if not current_user.user.admin: check_dept_data_scope_services(...)"
Permitted(dept_id) ==
    current_user.admin \/ check_dept_data_scope_services(param_sql, dept_id)

\* rows DeptDao.get_dept_detail_by_info can return first
SameNameDepts(db, page) ==
    {d \in DOMAIN db :
        /\ page.parent_id = 0 \/ db[d].parent_id = page.parent_id
        /\ db[d].dept_name = page.dept_name}

\* SELECT count(*) ... WHERE status = '0' AND del_flag = '0'
\*                       AND find_in_set(dept_id, ancestors)
count_normal_children_dept_dao(db, dept_id) ==
    Cardinality({d \in DOMAIN db :
        /\ db[d].status = DEPT_NORMAL
        /\ db[d].del_flag = "0"
        /\ SqlTrue(find_in_set(dept_id, db[d].ancestors))})

\* DeptService.replace_first on ancestor lists
replace_first(original, old, new) ==
    IF Len(original) >= Len(old) /\ SubSeq(original, 1, Len(old)) = old
    THEN new \o SubSeq(original, Len(old) + 1, Len(original))
    ELSE original

\* the statements of edit_dept_services between its checks and commit()
EditDept(db, page) ==
    LET moved == page.parent_id \in DOMAIN db /\ page.dept_id \in DOMAIN db
        new_ancestors == Append(db[page.parent_id].ancestors, page.parent_id)
        old_ancestors == db[page.dept_id].ancestors
        children == {c \in DOMAIN db : SqlTrue(find_in_set(page.dept_id, db[c].ancestors))}
        refreshed == IF moved /\ page.status = DEPT_NORMAL
                     THEN {new_ancestors[i] : i \in 1..Len(new_ancestors)}
                     ELSE {}
        edited(d) ==
            IF d = page.dept_id
            THEN [db[d] EXCEPT !.parent_id = page.parent_id,
                               !.dept_name = page.dept_name,
                               !.status = page.status,
                               !.ancestors = IF moved THEN new_ancestors ELSE @]
            ELSE IF moved /\ d \in children
                 THEN [db[d] EXCEPT !.ancestors =
                           replace_first(@, old_ancestors, new_ancestors)]
            ELSE db[d]
    IN  [d \in DOMAIN db |->
            IF d \in refreshed THEN [edited(d) EXCEPT !.status = DEPT_NORMAL]
            ELSE edited(d)]

\* PUT /system/dept: the form of an existing department with another status
edit_system_dept ==
    \E dept_id \in DeptIds, status \in {DEPT_NORMAL, DEPT_DISABLE} :
        LET page == [dept_id |-> dept_id, parent_id |-> sys_dept[dept_id].parent_id,
                     dept_name |-> sys_dept[dept_id].dept_name, status |-> status]
        IN
        \E first \in SameNameDepts(sys_dept, page) :
            LET raised ==
                    \/ first # dept_id
                    \/ page.dept_id = page.parent_id
                    \/ /\ status = DEPT_DISABLE
                       /\ count_normal_children_dept_dao(sys_dept, dept_id) > 0
            IN
            /\ pc = "scoped"
            /\ query_alias = "SysDept"
            /\ sys_dept' = IF Permitted(dept_id) /\ ~raised
                           THEN EditDept(sys_dept, page) ELSE sys_dept
            /\ write_request' =
                   [service |-> "edit_dept",
                    outcome |-> IF ~Permitted(dept_id) THEN "no_permission"
                                ELSE IF raised THEN "exception" ELSE "success",
                    targets |-> {dept_id}]
            /\ persisted_before' = Persisted
            /\ pc' = "returned"
            /\ UNCHANGED <<sys_user, sys_role, sys_user_role, sys_role_dept,
                           current_user, query_alias, param_sql, page_object,
                           query_result, sys_dict_data, cps_file, redis_sys_dict,
                           threads, login, interface>>

\* DELETE /system/dept/{dept_ids}: every id is checked, then
\* delete_dept_services runs
delete_system_dept ==
    \E dept_id_list \in SeqsUpTo(DeptIds, MaxBatch) :
        LET permitted == \A i \in 1..Len(dept_id_list) : Permitted(dept_id_list[i])
            run == DeleteDeptLoop(sys_dept, dept_id_list)
        IN
        /\ pc = "scoped"
        /\ query_alias = "SysDept"
        /\ sys_dept' = IF permitted /\ ~run.raised THEN run.db ELSE sys_dept
        /\ write_request' =
               [service |-> "delete_dept",
                outcome |-> IF ~permitted THEN "no_permission"
                            ELSE IF run.raised THEN "exception" ELSE "success",
                targets |-> {dept_id_list[i] : i \in 1..Len(dept_id_list)}]
        /\ persisted_before' = Persisted
        /\ pc' = "returned"
        /\ UNCHANGED <<sys_user, sys_role, sys_user_role, sys_role_dept,
                       current_user, query_alias, param_sql, page_object,
                       query_result, sys_dict_data, cps_file, redis_sys_dict,
                       threads, login, interface>>

\* GET /system/dept/{dept_id}: the check, then get_dept_detail_by_id
query_detail_system_dept ==
    \E dept_id \in DeptIds :
        /\ pc = "scoped"
        /\ query_alias = "SysDept"
        /\ write_request' =
               [service |-> "dept_detail",
                outcome |-> IF Permitted(dept_id) THEN "success" ELSE "no_permission",
                targets |-> {dept_id}]
        /\ query_result' =
               IF Permitted(dept_id)
               THEN {d \in DOMAIN sys_dept : d = dept_id /\ sys_dept[d].del_flag = "0"}
               ELSE {}
        /\ persisted_before' = Persisted
        /\ pc' = "returned"
        /\ UNCHANGED <<tables, current_user, query_alias, param_sql, page_object,
                       sys_dict_data, cps_file, redis_sys_dict, threads, login, interface>>

\* Depends(LoginService.get_current_user) of the next request
next_request ==
    /\ pc = "idle"
    /\ current_user' \in DeptActors
    /\ pc' = "resolved"
    /\ UNCHANGED <<tables, query_alias, param_sql, page_object, query_result,
                   services>>

\* return ResponseUtil.success(...) or the exception handler's response: the
\* request's session and dependencies are released
respond ==
    /\ pc = "returned"
    /\ query_alias' = ""
    /\ param_sql' = <<>>
    /\ query_result' = {}
    /\ write_request' = NoRequest
    /\ persisted_before' = Persisted
    /\ pc' = "idle"
    /\ UNCHANGED <<tables, current_user, page_object, sys_dict_data, cps_file,
                   redis_sys_dict, threads, login, interface>>

InitDept ==
    /\ sys_dept = SeedDept
    /\ sys_user = TxUser
    /\ sys_role = SeedRole
    /\ sys_user_role = SeedUserRole
    /\ sys_role_dept = SeedRoleDept
    /\ ServicesIdle
    /\ current_user \in DeptActors
    /\ query_alias = ""
    /\ param_sql = <<>>
    /\ pc = "resolved"
    /\ page_object = NoFilter
    /\ query_result = {}

NextDept ==
    \/ next_request
    \/ Call("SysDept")
    \/ edit_system_dept
    \/ delete_system_dept
    \/ query_detail_system_dept
    \/ respond

SpecDept == InitDept /\ [][NextDept]_vars

\* the request handled in this step
DeptRequest == pc = "scoped" /\ pc' = "returned"

\* the user's own predicate admits the department
AdmittedDept(dept_id) ==
    dept_id \in DOMAIN sys_dept /\ Admits(param_sql, sys_dept[dept_id])

\* C20: a request of a non-administrator to edit, delete or view departments
\* that names a department its user's data-scope predicate does not admit
\* fails with 'no permission' and changes nothing; when the predicate admits
\* every (undeleted) department named, the permission check lets it through.
C20_DeptGuard ==
    [][(DeptRequest /\ ~current_user.admin) =>
          LET named == write_request'.targets IN
          /\ (\E d \in named : ~AdmittedDept(d)) =>
                 /\ write_request'.outcome = "no_permission"
                 /\ tables' = tables
                 /\ write_request'.service = "dept_detail" => query_result' = {}
          /\ (\A d \in named : AdmittedDept(d) /\ sys_dept[d].del_flag = "0") =>
                 write_request'.outcome # "no_permission"]_vars

\* user 3, whose only role has scope DEPT, has been refused the deletion of
\* departments 3 and 4: department 4 is not its own
C20_Witness ==
    /\ write_request = [service |-> "delete_dept", outcome |-> "no_permission",
                        targets |-> {3, 4}]
    /\ current_user.user_id = 3
    /\ ~current_user.admin
    /\ current_user.role = <<[role_id |-> 1, data_scope |-> DATA_SCOPE_DEPT]>>
    /\ sys_dept = persisted_before[1]

----------------------------------------------------------------------------
(* Interface permission check: CheckUserInterfaceAuth                       *)

\* longest permission list handed to CheckUserInterfaceAuth(perm=[...])
MaxPerm == 2

WILDCARD == "*:*:*"

\* permission identifiers of the model
Perms == {WILDCARD, "system:dept:list", "system:dept:edit"}

\* perm: Union[str, List]; "other" is any argument that is neither
\* (str holds a string argument, list a list argument)
Perm ==
    {[type |-> "str", str |-> p, list |-> <<>>] : p \in Perms}
    \cup {[type |-> "list", str |-> "", list |-> l] : l \in {<<>>} \cup SeqsUpTo(Perms, MaxPerm)}
    \cup {[type |-> "other", str |-> "", list |-> <<>>]}

\* [perm_str in user_auth_list for perm_str in self.perm]
Held(perm_list, user_auth_list) ==
    [i \in 1..Len(perm_list) |-> perm_list[i] \in user_auth_list]

\* all(flags): no entry is False
RECURSIVE all(_)
all(flags) ==
    IF flags = <<>> THEN TRUE
    ELSE IF ~Head(flags) THEN FALSE
    ELSE all(Tail(flags))

\* any(flags): some entry is True
RECURSIVE any(_)
any(flags) ==
    IF flags = <<>> THEN FALSE
    ELSE IF Head(flags) THEN TRUE
    ELSE any(Tail(flags))

\* the check without the '*:*:*' shortcut
CheckUserInterfaceAuth_NoWildcard(self, user_auth_list) ==
    IF self.perm.type = "str" /\ self.perm.str \in user_auth_list THEN "True"
    ELSE IF self.perm.type = "list" /\ self.is_strict
            /\ all(Held(self.perm.list, user_auth_list)) THEN "True"
    ELSE IF self.perm.type = "list" /\ ~self.is_strict
            /\ any(Held(self.perm.list, user_auth_list)) THEN "True"
    ELSE "PermissionException"

\* CheckUserInterfaceAuth.__call__: "True" when it returns, else the
\* exception it raises
CheckUserInterfaceAuth(self, user_auth_list) ==
    IF WILDCARD \in user_auth_list THEN "True"
    ELSE IF self.perm.type = "str" /\ self.perm.str \in user_auth_list THEN "True"
    ELSE IF self.perm.type = "list" /\ self.is_strict
            /\ all(Held(self.perm.list, user_auth_list)) THEN "True"
    ELSE IF self.perm.type = "list" /\ ~self.is_strict
            /\ any(Held(self.perm.list, user_auth_list)) THEN "True"
    ELSE "PermissionException"

\* FastAPI resolves the dependency of the endpoint for the request
check_interface_auth ==
    /\ auth_result = ""
    /\ auth_result' = CheckUserInterfaceAuth(interface_auth, permissions)
    /\ UNCHANGED <<tables, list_request, sys_dict_data, cps_file, redis_sys_dict,
                   write_request, persisted_before, threads, login,
                   interface_auth, permissions>>

\* an endpoint declared with any perm and mode, requested by a user with any
\* permission list
InitInterface ==
    /\ SeedTables
    /\ ListIdle
    /\ TxIdle
    /\ threads = <<>>
    /\ LoginIdle
    /\ interface_auth \in [perm : Perm, is_strict : BOOLEAN]
    /\ permissions \in SUBSET Perms
    /\ auth_result = ""

NextInterface == check_interface_auth

SpecInterface == InitInterface /\ [][NextInterface]_vars

\* the entries of a list perm
Entries(perm) == {perm.list[i] : i \in 1..Len(perm.list)}

\* C21: the check lets the request through exactly when the permission list
\* holds '*:*:*', or perm is a string in the list, or perm is a list of which
\* the user holds every entry (strict) or some entry (non-strict); otherwise
\* it raises PermissionException.
C21_InterfaceAuth ==
    auth_result # "" =>
        LET perm == interface_auth.perm
            pass ==
                \/ WILDCARD \in permissions
                \/ perm.type = "str" /\ perm.str \in permissions
                \/ /\ perm.type = "list"
                   /\ interface_auth.is_strict
                   /\ Entries(perm) \subseteq permissions
                \/ /\ perm.type = "list"
                   /\ ~interface_auth.is_strict
                   /\ Entries(perm) \cap permissions # {}
        IN  /\ pass => auth_result = "True"
            /\ ~pass => auth_result = "PermissionException"

\* a user without the permission of a non-strict two-entry list was let
\* through by '*:*:*' alone
C21_Witness ==
    /\ auth_result = "True"
    /\ interface_auth = [perm |-> [type |-> "list", str |-> "",
                                   list |-> <<"system:dept:list", "system:dept:edit">>],
                         is_strict |-> FALSE]
    /\ permissions = {WILDCARD}

----------------------------------------------------------------------------
(* The department tree under add_dept_services and edit_dept_services       *)

\* departments of the tree at the start: department 1 and those below it
MaxTree == 3

\* departments added on top of them
MaxAdded == 1

\* ids an ancestors column can hold (its length is limited)
MaxAncestors == 4

\* the first MaxTree rows of the seeded table
SeedTree == [d \in 1..MaxTree |-> SeedDept[d]]

\* .scalars().first(): a matching row, or None
first(rows) == IF rows = {} THEN {NULL} ELSE rows

\* the id the table gives the next row
NextDeptId(db) == Cardinality(DOMAIN db) + 1

\* a write that leaves an ancestors value above the column's length fails
TooLong(db) == \E d \in DOMAIN db : Len(db[d].ancestors) > MaxAncestors

\* DeptDao.add_dept_dao: INSERT of the form with the computed ancestors
add_dept_dao(db, page) ==
    [d \in DOMAIN db \cup {NextDeptId(db)} |->
        IF d \in DOMAIN db THEN db[d]
        ELSE [dept_id |-> d, parent_id |-> page.parent_id,
              ancestors |-> page.ancestors, dept_name |-> page.dept_name,
              status |-> page.status, del_flag |-> "0"]]

\* POST /system/dept: DeptService.add_dept_services
add_dept_services ==
    \E parent_id \in DOMAIN sys_dept \cup {0}, dept_name \in {"A", "B"} :
        LET form == [dept_id |-> NULL, parent_id |-> parent_id,
                     dept_name |-> dept_name, status |-> DEPT_NORMAL]
        IN
        \E same \in first(SameNameDepts(sys_dept, form)) :
            LET raised ==
                    \/ same # NULL
                    \/ parent_id \notin DOMAIN sys_dept
                    \/ sys_dept[parent_id].status # DEPT_NORMAL
                added ==
                    add_dept_dao(sys_dept,
                        [form EXCEPT !.dept_id = NULL] @@
                        [ancestors |-> Append(sys_dept[parent_id].ancestors, parent_id)])
                failed == raised \/ TooLong(added)
            IN
            /\ Cardinality(DOMAIN sys_dept) < MaxTree + MaxAdded
            /\ sys_dept' = IF failed THEN sys_dept ELSE added
            /\ write_request' =
                   [service |-> "add_dept",
                    outcome |-> IF failed THEN "exception" ELSE "success",
                    targets |-> IF failed THEN {} ELSE {NextDeptId(sys_dept)}]
            /\ UNCHANGED <<sys_user, sys_role, sys_user_role, sys_role_dept,
                           sys_dict_data, cps_file, redis_sys_dict,
                           persisted_before, outside_tx>>

\* PUT /system/dept: DeptService.edit_dept_services with the form of an
\* existing department and any parent chosen for it
edit_dept_services ==
    \E dept_id \in DOMAIN sys_dept, parent_id \in DOMAIN sys_dept \cup {0} :
        LET form == [dept_id |-> dept_id, parent_id |-> parent_id,
                     dept_name |-> sys_dept[dept_id].dept_name,
                     status |-> sys_dept[dept_id].status]
        IN
        \E same \in first(SameNameDepts(sys_dept, form)) :
            LET raised ==
                    \/ same # NULL /\ same # dept_id
                    \/ form.dept_id = form.parent_id
                    \/ /\ form.status = DEPT_DISABLE
                       /\ count_normal_children_dept_dao(sys_dept, dept_id) > 0
                edited == EditDept(sys_dept, form)
                failed == raised \/ TooLong(edited)
            IN
            /\ sys_dept' = IF failed THEN sys_dept ELSE edited
            /\ write_request' =
                   [service |-> "edit_dept",
                    outcome |-> IF failed THEN "exception" ELSE "success",
                    targets |-> {dept_id}]
            /\ UNCHANGED <<sys_user, sys_role, sys_user_role, sys_role_dept,
                           sys_dict_data, cps_file, redis_sys_dict,
                           persisted_before, outside_tx>>

InitTree ==
    /\ sys_dept = SeedTree
    /\ sys_user = SeedUser
    /\ sys_role = SeedRole
    /\ sys_user_role = SeedUserRole
    /\ sys_role_dept = SeedRoleDept
    /\ ListIdle
    /\ TxIdle
    /\ InterfaceIdle
    /\ threads = <<>>
    /\ LoginIdle

NextTree == add_dept_services \/ edit_dept_services

SpecTree == InitTree /\ [][NextTree]_vars

\* the department k parent_id steps above d; 0 once the chain leaves the table
RECURSIVE Up(_, _, _)
Up(db, d, k) ==
    IF k = 0 \/ d \notin DOMAIN db THEN (IF d \in DOMAIN db THEN d ELSE 0)
    ELSE Up(db, db[d].parent_id, k - 1)

\* d is its own parent or ancestor
OnCycle(db, d) ==
    \/ \E k \in 1..Cardinality(DOMAIN db) : Up(db, d, k) = d
    \/ SqlTrue(find_in_set(d, db[d].ancestors))

\* C22: after any sequence of department add and edit operations no
\* department is its own parent or its own ancestor.
C22_NoCycle == \A d \in DOMAIN sys_dept : ~OnCycle(sys_dept, d)

\* the ancestors of d are those of its parent, then the parent
ChainOf(db, d) ==
    db[d].parent_id \in DOMAIN db =>
        db[d].ancestors = Append(db[db[d].parent_id].ancestors, db[d].parent_id)

\* C23: after any sequence of department add and edit operations every
\* department's ancestors equal its parent's ancestors followed by the
\* parent's id.
C23_AncestorsChain == \A d \in DOMAIN sys_dept : ChainOf(sys_dept, d)

\* the chain holds in every tree without a department on a cycle
C23_AncestorsChainAcyclic ==
    (\A d \in DOMAIN sys_dept : ~OnCycle(sys_dept, d)) =>
        \A d \in DOMAIN sys_dept : ChainOf(sys_dept, d)

====
